---- MODULE Spec2Model ----
(***************************************************************************)
(* Model of src/main.py: a FastAPI CRUD service over one SQLite table      *)
(* (items), wrapped by a Prometheus metrics middleware.                    *)
(*                                                                         *)
(* Optional values (Python None / SQL NULL) are modelled as sequences of   *)
(* length at most one: None == <<>>, Some(x) == <<x>>.                     *)
(***************************************************************************)
EXTENDS Integers, Sequences, FiniteSets, TLC

\* ------------------------------------------------------------------ bounds
\* Total number of requests the service receives in one behaviour: served one
\* at a time (Spec), or by the worker threads concurrently (SpecConc).
MaxReqs == 4
MaxConcReqs == 2

\* Worker threads that serve requests concurrently.
Procs == {"w1", "w2"}

\* Ids a client puts in the path of GET/PUT/DELETE /items/{item_id}.
PathIds == {1, 2}

\* Outcomes of os.path.getsize(DB_PATH) the environment can give.
FileSizes == {8192}

None == <<>>
Some(x) == <<x>>

\* Request bodies (JSON) a client sends to POST /items/ and PUT /items/{id}.
\* A body without "name" has name = None.
Bodies ==
    { [id |-> None,    name |-> Some("a"), description |-> None],
      [id |-> Some(2), name |-> Some("b"), description |-> Some("x")],
      [id |-> None,    name |-> None,      description |-> Some("x")],
      [id |-> None,    name |-> Some(""),  description |-> None] }

NoBody == [id |-> None, name |-> None, description |-> None]

\* Stores the database file can hold when the process starts: a file that
\* init_db has just created, or a file left by an earlier run of the service
\* (rows 1 and 2 were created, row 2 was deleted).
InitStores ==
    { [items |-> <<>>, seq |-> 0],
      [items |-> (1 :> [name |-> "a", description |-> None]), seq |-> 2] }

\* ---------------------------------------------------------------- helpers
Max(S) == CHOOSE x \in S : \A y \in S : y <= x

MaxOr0(S) == IF S = {} THEN 0 ELSE Max(S)

\* Counter(...).labels(k).inc(): the child is created on first use.
Inc(counter, k) ==
    IF k \in DOMAIN counter
    THEN [counter EXCEPT ![k] = @ + 1]
    ELSE counter @@ (k :> 1)

Value(counter, k) == IF k \in DOMAIN counter THEN counter[k] ELSE 0

RECURSIVE SumOver(_, _)
SumOver(counter, keys) ==
    IF keys = {} THEN 0
    ELSE LET k == CHOOSE x \in keys : TRUE
         IN counter[k] + SumOver(counter, keys \ {k})

Total(counter) == SumOver(counter, DOMAIN counter)

\* {**d1, **d2}: on a shared key the later dict wins.
DictMerge(d1, d2) ==
    [k \in DOMAIN d1 \cup DOMAIN d2 |->
        IF k \in DOMAIN d2 THEN d2[k] ELSE d1[k]]

\* ------------------------------------------------------------ the SQL layer
\* A database is [items: id -> [name, description], seq: the sqlite_sequence
\* entry of the table, i.e. the largest rowid ever assigned].

\* INSERT INTO items (name, description) VALUES (?, ?) on a table whose id is
\* INTEGER PRIMARY KEY AUTOINCREMENT, then commit.  lastrowid is the new id.
\* Faulty variant: the id column declared without AUTOINCREMENT.
NextRowidNoAutoincrement(db) == MaxOr0(DOMAIN db.items) + 1

NextRowid(db) == MaxOr0(DOMAIN db.items \cup {db.seq}) + 1

\* Faulty variant: the INSERT binds no description.
InsertDropsDescription(db, name, description) ==
    LET rowid == NextRowid(db)
    IN [db |-> [items |-> db.items @@ (rowid :> [name |-> name, description |-> None]),
                seq |-> rowid],
        lastrowid |-> rowid]

Insert(db, name, description) ==
    LET rowid == NextRowid(db)
    IN [db |-> [items |-> db.items @@
                    (rowid :> [name |-> name, description |-> description]),
                seq |-> rowid],
        lastrowid |-> rowid]

\* SELECT * FROM items WHERE id = ? ; fetchone()
SelectById(db, item_id) ==
    IF item_id \in DOMAIN db.items
    THEN Some([id |-> item_id,
               name |-> db.items[item_id].name,
               description |-> db.items[item_id].description])
    ELSE None

\* UPDATE items SET name = ?, description = ? WHERE id = ? ; commit
\* Faulty variant: the UPDATE has no WHERE clause.
UpdateWithoutWhere(db, name, description, item_id) ==
    [db |-> [db EXCEPT !.items =
                 [i \in DOMAIN db.items |-> [name |-> name, description |-> description]]],
     rowcount |-> Cardinality(DOMAIN db.items)]

\* Faulty variant: INSERT OR REPLACE, a missing row is created.
UpdateUpserts(db, name, description, item_id) ==
    [db |-> [items |-> [i \in DOMAIN db.items \cup {item_id} |->
                          IF i = item_id
                          THEN [name |-> name, description |-> description]
                          ELSE db.items[i]],
             seq |-> MaxOr0({db.seq, item_id})],
     rowcount |-> 1]

Update(db, name, description, item_id) ==
    IF item_id \in DOMAIN db.items
    THEN [db |-> [db EXCEPT !.items[item_id] =
                      [name |-> name, description |-> description]],
          rowcount |-> 1]
    ELSE [db |-> db, rowcount |-> 0]

\* DELETE FROM items WHERE id = ? ; commit
\* Faulty variant: db.commit() is missing, close() rolls the DELETE back.
DeleteWithoutCommit(db, item_id) ==
    [db |-> db, rowcount |-> IF item_id \in DOMAIN db.items THEN 1 ELSE 0]

\* Faulty variant: rowcount reports the statement, not the rows it matched.
DeleteRowcountOne(db, item_id) ==
    [db |-> [db EXCEPT !.items =
                 [i \in DOMAIN db.items \ {item_id} |-> db.items[i]]],
     rowcount |-> 1]

Delete(db, item_id) ==
    IF item_id \in DOMAIN db.items
    THEN [db |-> [db EXCEPT !.items =
                      [i \in DOMAIN db.items \ {item_id} |-> db.items[i]]],
          rowcount |-> 1]
    ELSE [db |-> db, rowcount |-> 0]

\* SELECT * FROM items ; fetchall(): a scan of the rowid table, in id order.
RECURSIVE SelectAllFrom(_, _)
SelectAllFrom(db, ids) ==
    IF ids = {} THEN <<>>
    ELSE LET i == CHOOSE x \in ids : \A y \in ids : x <= y
         IN <<[id |-> i, name |-> db.items[i].name,
               description |-> db.items[i].description]>>
            \o SelectAllFrom(db, ids \ {i})

SelectAll(db) == SelectAllFrom(db, DOMAIN db.items)

\* ------------------------------------------------------------- the handlers
\* Each handler is a function of its arguments and the database.  It yields
\* the database after its statement, the labels of CRUD_OPS it increments,
\* and the response (status, body).

\* item.dict() of the validated pydantic model.
ItemDict(item) ==
    [id |-> item.id, name |-> item.name[1], description |-> item.description]

\* dict(row) of a sqlite3.Row.
RowDict(row) ==
    [id |-> Some(row.id), name |-> row.name, description |-> row.description]

NotFoundBody == [detail |-> "Item not found"]

create_item(item, db) ==
    LET ins == Insert(db, item.name[1], item.description)
        item_id == ins.lastrowid
    IN [db |-> ins.db,
        crud |-> <<"create">>,
        status |-> 201,
        body |-> DictMerge([id |-> Some(item_id)], ItemDict(item))]

\* Faulty variant: CRUD_OPS is incremented before the row is checked.
read_item_counts_first(item_id, db) ==
    LET row == SelectById(db, item_id)
    IN IF row = None
       THEN [db |-> db, crud |-> <<"read">>, status |-> 404, body |-> NotFoundBody]
       ELSE [db |-> db, crud |-> <<"read">>, status |-> 200, body |-> RowDict(row[1])]

read_item(item_id, db) ==
    LET row == SelectById(db, item_id)
    IN IF row = None
       THEN [db |-> db, crud |-> <<>>, status |-> 404, body |-> NotFoundBody]
       ELSE [db |-> db, crud |-> <<"read">>, status |-> 200, body |-> RowDict(row[1])]

update_item(item_id, item, db) ==
    LET upd == Update(db, item.name[1], item.description, item_id)
    IN IF upd.rowcount = 0
       THEN [db |-> upd.db, crud |-> <<>>, status |-> 404, body |-> NotFoundBody]
       ELSE [db |-> upd.db,
             crud |-> <<"update">>,
             status |-> 200,
             body |-> DictMerge([id |-> Some(item_id)], ItemDict(item))]

\* Faulty variant: rowcount is not checked.
delete_item_ignores_rowcount(item_id, db) ==
    LET del == Delete(db, item_id)
    IN [db |-> del.db, crud |-> <<"delete">>, status |-> 204, body |-> None]

delete_item(item_id, db) ==
    LET del == Delete(db, item_id)
    IN IF del.rowcount = 0
       THEN [db |-> del.db, crud |-> <<>>, status |-> 404, body |-> NotFoundBody]
       ELSE [db |-> del.db, crud |-> <<"delete">>, status |-> 204, body |-> None]

\* Faulty variant: fetchone() instead of fetchall().
list_items_fetchone(db) ==
    LET all == SelectAll(db)
        rows == IF all = <<>> THEN <<>> ELSE <<all[1]>>
    IN [db |-> db,
        crud |-> <<"list">>,
        status |-> 200,
        body |-> [i \in 1..Len(rows) |-> RowDict(rows[i])]]

list_items(db) ==
    LET rows == SelectAll(db)
    IN [db |-> db,
        crud |-> <<"list">>,
        status |-> 200,
        body |-> [i \in 1..Len(rows) |-> RowDict(rows[i])]]

\* ------------------------------------------------------------- the requests
ItemsPath == <<"items">>
ItemPath(i) == <<"items", i>>
MetricsPath == <<"metrics">>
OtherPath == <<"other">>

Requests ==
    { [method |-> "POST", path |-> ItemsPath, body |-> b] : b \in Bodies }
    \cup { [method |-> "PUT", path |-> ItemPath(i), body |-> b] :
             i \in PathIds, b \in Bodies }
    \cup { [method |-> m, path |-> ItemPath(i), body |-> NoBody] :
             m \in {"GET", "DELETE"}, i \in PathIds }
    \cup { [method |-> "GET", path |-> q, body |-> NoBody] :
             q \in {ItemsPath, MetricsPath, OtherPath} }

NoReq == [method |-> "", path |-> <<>>, body |-> NoBody]
NoResp == [status |-> 0, body |-> None]

\* The route decorators: which handler a method and path select.
Route(r) ==
    IF r.path = MetricsPath /\ r.method = "GET" THEN "metrics"
    ELSE IF r.path = ItemsPath /\ r.method = "POST" THEN "create"
    ELSE IF r.path = ItemsPath /\ r.method = "GET" THEN "list"
    ELSE IF Len(r.path) = 2 /\ r.path[1] = "items" /\ r.method = "GET" THEN "read"
    ELSE IF Len(r.path) = 2 /\ r.path[1] = "items" /\ r.method = "PUT" THEN "update"
    ELSE IF Len(r.path) = 2 /\ r.path[1] = "items" /\ r.method = "DELETE" THEN "delete"
    ELSE "none"

\* Handlers whose signature takes item: Item, validated before the call.
TakesBody(kind) == kind \in {"create", "update"}

\* class Item: name is required.
\* Faulty variant: name declared str | None = None.
ValidItemNameOptional(body) == TRUE

ValidItem(body) == body.name # None

Kinds == {"create", "read", "update", "delete", "list"}

SuccessStatus(kind) ==
    CASE kind = "create" -> 201
      [] kind = "delete" -> 204
      [] OTHER -> 200

\* ---------------------------------------------------------------- the state
VARIABLES
    db,             \* the SQLite file: [items, seq]
    conn,           \* per worker: "none", "open" or "closed" (get_db)
    pc,             \* per worker: "idle", "routed", "responded", "counted", "raised"
    req,            \* per worker: the request it serves
    resp,           \* per worker: the response of the handler
    REQUEST_COUNT,  \* <<method, endpoint, http_status>> -> count
    REQUEST_LATENCY,\* endpoint -> number of observations
    DB_SIZE,        \* the gauge: None until first set
    CRUD_OPS,       \* operation -> count
    connections,    \* the sqlite3 connections that are open, by number
    nconn,          \* sqlite3.connect calls so far
    cid,            \* per worker: the connection its get_db holds (0: none)
    \* history of the run, read by the properties only
    fresh,          \* the store was empty when the process started
    nreq,           \* requests received so far
    createResponses,\* the id of every 201 response of create, in order
    created,        \* per row inserted, in order: its id and the ids deleted before
    deleted,        \* the ids whose delete answered 204
    lastWrite,      \* id -> the create or update that last wrote the live row
    handled,        \* <<handler, status>> -> handler invocations that answered
    sent,           \* <<method, endpoint, status>> -> requests answered
    failed          \* requests that ended in the server's 500

vars == <<db, conn, pc, req, resp, REQUEST_COUNT, REQUEST_LATENCY, DB_SIZE,
          CRUD_OPS, connections, nconn, cid, fresh, nreq, createResponses,
          created, deleted, lastWrite, handled, sent, failed>>

connVars == <<conn, connections, nconn, cid>>

metricsVars == <<REQUEST_COUNT, REQUEST_LATENCY, DB_SIZE>>
historyVars == <<createResponses, created, deleted, lastWrite, handled>>

Init ==
    /\ db \in InitStores
    /\ conn = [p \in Procs |-> "none"]
    /\ pc = [p \in Procs |-> "idle"]
    /\ req = [p \in Procs |-> NoReq]
    /\ resp = [p \in Procs |-> NoResp]
    /\ REQUEST_COUNT = <<>>
    /\ REQUEST_LATENCY = <<>>
    /\ DB_SIZE = None
    /\ CRUD_OPS = <<>>
    /\ connections = {}
    /\ nconn = 0
    /\ cid = [p \in Procs |-> 0]
    /\ fresh = (db.items = <<>> /\ db.seq = 0)
    /\ nreq = 0
    /\ createResponses = <<>>
    /\ created = <<>>
    /\ deleted = {}
    /\ lastWrite = <<>>
    /\ handled = <<>>
    /\ sent = <<>>
    /\ failed = 0

Label(p) == <<req[p].method, req[p].path, resp[p].status>>

\* get_db: sqlite3.connect makes a new connection object on every call; n is
\* the number of connections made so far.
get_db_connect(n) == n + 1

\* get_db after the yield: finally conn.close(), whether the request returned
\* or an exception was thrown into the generator.  open is the set of open
\* connections, c the one get_db made.
\* Faulty variant: no try/finally, an exception skips conn.close().
get_db_close_unless_raised(open, c, raised) ==
    IF raised THEN open ELSE open \ {c}

get_db_close(open, c, raised) == open \ {c}

\* FastAPI resolves db=Depends(get_db) for worker p: get_db runs to its yield.
GetDb(p) ==
    LET c == get_db_connect(nconn)
    IN /\ nconn' = c
       /\ cid' = [cid EXCEPT ![p] = c]
       /\ connections' = connections \cup {c}
       /\ conn' = [conn EXCEPT ![p] = "open"]

\* CRUD_OPS.labels(op).inc() for each op the handler counted.
CountCrud(counter, crud) ==
    IF crud = <<>> THEN counter ELSE Inc(counter, crud[1])

\* The request enters prometheus_metrics_middleware and is routed.
Receive(p, r) ==
    /\ pc[p] = "idle"
    /\ nreq' = nreq + 1
    /\ req' = [req EXCEPT ![p] = r]
    /\ pc' = [pc EXCEPT ![p] = "routed"]
    /\ UNCHANGED <<db, connVars, resp, metricsVars, CRUD_OPS, fresh, historyVars,
                   sent, failed>>

\* The body fails validation of Item: 422, the handler is not called.  The
\* dependencies of the route are resolved before its body is validated, so
\* get_db has made its connection.
ValidationError(p) ==
    /\ pc[p] = "routed"
    /\ TakesBody(Route(req[p]))
    /\ ~ValidItem(req[p].body)
    /\ GetDb(p)
    /\ resp' = [resp EXCEPT ![p] = [status |-> 422, body |-> [detail |-> "name"]]]
    /\ pc' = [pc EXCEPT ![p] = "responded"]
    /\ UNCHANGED <<db, req, metricsVars, CRUD_OPS, fresh, nreq, historyVars, sent,
                   failed>>

\* No route matches: Starlette answers 404.
NoRoute(p) ==
    /\ pc[p] = "routed"
    /\ Route(req[p]) = "none"
    /\ resp' = [resp EXCEPT ![p] = [status |-> 404, body |-> [detail |-> "Not Found"]]]
    /\ pc' = [pc EXCEPT ![p] = "responded"]
    /\ UNCHANGED <<db, connVars, req, metricsVars, CRUD_OPS, fresh, nreq,
                   historyVars, sent, failed>>

\* GET /metrics: generate_latest() of the registry.
Metrics(p) ==
    /\ pc[p] = "routed"
    /\ Route(req[p]) = "metrics"
    /\ resp' = [resp EXCEPT ![p] =
                  [status |-> 200,
                   body |-> [http_requests_total |-> REQUEST_COUNT,
                             http_request_duration_seconds |-> REQUEST_LATENCY,
                             sqlite_db_file_size_bytes |-> DB_SIZE,
                             crud_operations_total |-> CRUD_OPS]]]
    /\ pc' = [pc EXCEPT ![p] = "responded"]
    /\ UNCHANGED <<db, connVars, req, metricsVars, CRUD_OPS, fresh, nreq,
                   historyVars, sent, failed>>

\* A storage handler ran to its response `out` on the connection get_db
\* opened for it.
Answer(p, kind, out) ==
    /\ GetDb(p)
    /\ db' = out.db
    /\ CRUD_OPS' = CountCrud(CRUD_OPS, out.crud)
    /\ resp' = [resp EXCEPT ![p] = [status |-> out.status, body |-> out.body]]
    /\ pc' = [pc EXCEPT ![p] = "responded"]
    /\ handled' = Inc(handled, <<kind, out.status>>)
    /\ UNCHANGED <<req, metricsVars, fresh, nreq, sent, failed>>

\* The statement (or its commit) raises sqlite3.Error: nothing is stored, the
\* exception leaves the handler.
Raise(p) ==
    /\ GetDb(p)
    /\ pc' = [pc EXCEPT ![p] = "raised"]
    /\ UNCHANGED <<db, req, resp, metricsVars, CRUD_OPS, fresh, nreq, historyVars,
                   sent, failed>>

Ready(p, kind) ==
    /\ pc[p] = "routed"
    /\ Route(req[p]) = kind
    /\ TakesBody(kind) => ValidItem(req[p].body)

\* name TEXT NOT NULL: a statement that binds NULL to name raises
\* sqlite3.IntegrityError.
NameNotNull(item) == item.name # None

CreateItem(p) ==
    /\ Ready(p, "create")
    /\ \/ Raise(p)
       \/ /\ NameNotNull(req[p].body)
          /\ LET out == create_item(req[p].body, db)
                 newIds == DOMAIN out.db.items \ DOMAIN db.items
             IN /\ Answer(p, "create", out)
                /\ createResponses' = Append(createResponses, out.body.id)
                /\ created' = IF newIds = {} THEN created
                              ELSE Append(created, [id |-> Max(newIds), gone |-> deleted])
                /\ lastWrite' =
                     IF newIds = {} THEN lastWrite
                     ELSE [i \in DOMAIN lastWrite \cup newIds |->
                             IF i \in newIds
                             THEN [op |-> "create",
                                   name |-> req[p].body.name[1],
                                   description |-> req[p].body.description]
                             ELSE lastWrite[i]]
                /\ UNCHANGED deleted

ReadItem(p) ==
    /\ Ready(p, "read")
    /\ \/ Raise(p)
       \/ /\ Answer(p, "read", read_item(req[p].path[2], db))
          /\ UNCHANGED <<createResponses, created, deleted, lastWrite>>

UpdateItem(p) ==
    /\ Ready(p, "update")
    /\ \/ Raise(p)
       \/ /\ NameNotNull(req[p].body)
          /\ LET item_id == req[p].path[2]
                 out == update_item(item_id, req[p].body, db)
             IN /\ Answer(p, "update", out)
                /\ lastWrite' =
                     IF out.status = 200
                     THEN [i \in DOMAIN lastWrite \cup {item_id} |->
                             IF i = item_id
                             THEN [op |-> "update",
                                   name |-> req[p].body.name[1],
                                   description |-> req[p].body.description]
                             ELSE lastWrite[i]]
                     ELSE lastWrite
                /\ UNCHANGED <<createResponses, created, deleted>>

DeleteItem(p) ==
    /\ Ready(p, "delete")
    /\ \/ Raise(p)
       \/ LET item_id == req[p].path[2]
              out == delete_item(item_id, db)
          IN /\ Answer(p, "delete", out)
             /\ deleted' = IF out.status = 204 THEN deleted \cup {item_id} ELSE deleted
             /\ lastWrite' =
                  IF out.status = 204
                  THEN [i \in DOMAIN lastWrite \ {item_id} |-> lastWrite[i]]
                  ELSE lastWrite
             /\ UNCHANGED <<createResponses, created>>

ListItems(p) ==
    /\ Ready(p, "list")
    /\ \/ Raise(p)
       \/ /\ Answer(p, "list", list_items(db))
          /\ UNCHANGED <<createResponses, created, deleted, lastWrite>>

\* get_db: finally conn.close(), once the handler has returned or raised.
CloseConn(p) ==
    /\ conn[p] = "open"
    /\ pc[p] \in {"responded", "counted", "raised"}
    /\ conn' = [conn EXCEPT ![p] = "closed"]
    /\ connections' = get_db_close(connections, cid[p], pc[p] = "raised")
    /\ UNCHANGED <<db, pc, req, resp, metricsVars, CRUD_OPS, nconn, cid, fresh, nreq,
                   historyVars, sent, failed>>

\* prometheus_metrics_middleware after call_next returned `response`:
\* the metrics after the three updates.  stat is None when DB_PATH does not
\* exist, else Some(os.path.getsize(DB_PATH)).
\* Faulty variant: error responses are not counted.
MiddlewareSkipsErrors(m, method, endpoint, status_code, stat) ==
    [count |-> IF status_code >= 400 THEN m.count
               ELSE Inc(m.count, <<method, endpoint, status_code>>),
     latency |-> Inc(m.latency, endpoint),
     size |-> IF stat # None THEN stat ELSE m.size]

\* Faulty variant: the scrape endpoint is left out of the instrumentation.
MiddlewareSkipsMetricsPath(m, method, endpoint, status_code, stat) ==
    IF endpoint = MetricsPath THEN m
    ELSE [count |-> Inc(m.count, <<method, endpoint, status_code>>),
          latency |-> Inc(m.latency, endpoint),
          size |-> IF stat # None THEN stat ELSE m.size]

MiddlewareAfterCallNext(m, method, endpoint, status_code, stat) ==
    [count |-> Inc(m.count, <<method, endpoint, status_code>>),
     latency |-> Inc(m.latency, endpoint),
     size |-> IF stat # None THEN stat ELSE m.size]

\* prometheus_metrics_middleware when call_next raises: the exception leaves
\* the coroutine at the await, the statements after it do not run.
\* Faulty variant: the updates sit in a finally block and count a 500.
MiddlewareCountsException(m, method, endpoint, stat) ==
    [count |-> Inc(m.count, <<method, endpoint, 500>>),
     latency |-> Inc(m.latency, endpoint),
     size |-> IF stat # None THEN stat ELSE m.size]

MiddlewareCallNextRaises(m, method, endpoint, stat) == m

Registry == [count |-> REQUEST_COUNT, latency |-> REQUEST_LATENCY, size |-> DB_SIZE]

FileStats == {None} \cup {Some(sz) : sz \in FileSizes}

MiddlewareAfter(p) ==
    /\ pc[p] = "responded"
    /\ \E stat \in FileStats :
         LET m == MiddlewareAfterCallNext(
                      Registry, req[p].method, req[p].path, resp[p].status, stat)
         IN /\ REQUEST_COUNT' = m.count
            /\ REQUEST_LATENCY' = m.latency
            /\ DB_SIZE' = m.size
    /\ pc' = [pc EXCEPT ![p] = "counted"]
    /\ UNCHANGED <<db, connVars, req, resp, CRUD_OPS, fresh, nreq, historyVars,
                   sent, failed>>

\* The middleware returns the response and the request is over.
Complete(p) ==
    /\ pc[p] = "counted"
    /\ conn[p] # "open"
    /\ sent' = Inc(sent, Label(p))
    /\ pc' = [pc EXCEPT ![p] = "idle"]
    /\ req' = [req EXCEPT ![p] = NoReq]
    /\ resp' = [resp EXCEPT ![p] = NoResp]
    /\ conn' = [conn EXCEPT ![p] = "none"]
    /\ cid' = [cid EXCEPT ![p] = 0]
    /\ UNCHANGED <<db, metricsVars, CRUD_OPS, connections, nconn, fresh, nreq,
                   historyVars, failed>>

\* The exception passed get_db and the middleware: the server answers 500.
ServerError(p) ==
    /\ pc[p] = "raised"
    /\ conn[p] # "open"
    /\ \E stat \in FileStats :
         LET m == MiddlewareCallNextRaises(Registry, req[p].method, req[p].path, stat)
         IN /\ REQUEST_COUNT' = m.count
            /\ REQUEST_LATENCY' = m.latency
            /\ DB_SIZE' = m.size
    /\ failed' = failed + 1
    /\ pc' = [pc EXCEPT ![p] = "idle"]
    /\ req' = [req EXCEPT ![p] = NoReq]
    /\ resp' = [resp EXCEPT ![p] = NoResp]
    /\ conn' = [conn EXCEPT ![p] = "none"]
    /\ cid' = [cid EXCEPT ![p] = 0]
    /\ UNCHANGED <<db, CRUD_OPS, connections, nconn, fresh, nreq, historyVars,
                   sent>>

\* What a worker does with the request it holds.
Serve(p) ==
    \/ ValidationError(p)
    \/ NoRoute(p)
    \/ Metrics(p)
    \/ CreateItem(p)
    \/ ReadItem(p)
    \/ UpdateItem(p)
    \/ DeleteItem(p)
    \/ ListItems(p)
    \/ CloseConn(p)
    \/ MiddlewareAfter(p)
    \/ Complete(p)
    \/ ServerError(p)

\* Requests arrive one after the other: a single worker serves them.
Next ==
    \E p \in {"w1"} :
        \/ nreq < MaxReqs /\ \E r \in Requests : Receive(p, r)
        \/ Serve(p)

Spec == Init /\ [][Next]_vars

\* Requests overlap: the sync handlers run on the threads of the pool.
NextConc ==
    \E p \in Procs :
        \/ nreq < MaxConcReqs /\ \E r \in Requests : Receive(p, r)
        \/ Serve(p)

SpecConc == Init /\ [][NextConc]_vars

\* ------------------------------------------------------------ the properties
\* Worker p's handler of this kind answers in this step.
HandlerStep(p, kind) ==
    /\ pc[p] = "routed"
    /\ Route(req[p]) = kind
    /\ pc'[p] = "responded"
    /\ resp'[p].status # 422

\* Worker p holds the response of its handler of this kind.
Holds(p, kind) ==
    /\ pc[p] \in {"responded", "counted"}
    /\ Route(req[p]) = kind
    /\ resp[p].status # 422

\* C1 (as claimed): every create response carries status 201 and an id that
\* is a positive integer different from the id of every earlier create
\* response.
C1_CreateReturnsFreshId ==
    /\ \A i \in 1..Len(createResponses) :
         /\ createResponses[i] # None
         /\ createResponses[i][1] > 0
         /\ \A j \in 1..(i - 1) : createResponses[j] # createResponses[i]
    /\ \A p \in Procs : Holds(p, "create") => resp[p].status = 201

\* C2 (as claimed): an update of a stored id answers 200 with an Item whose
\* id is the id of the path and whose name and description are the body's.
C2_UpdateReturnsPathId ==
    \A p \in Procs :
        (Holds(p, "update") /\ resp[p].status = 200) =>
            resp[p].body = [id |-> Some(req[p].path[2]),
                            name |-> req[p].body.name[1],
                            description |-> req[p].body.description]

\* Handler invocations of a kind that answered, with any status.
Attempts(kind) ==
    SumOver(handled, {k \in DOMAIN handled : k[1] = kind})

Counted(l) == {p \in Procs : pc[p] = "counted" /\ Label(p) = l}

\* C4: the request counter, summed over all labels, equals the number of
\* completed requests that were answered (2xx, 404 or 422; every request
\* received is either in flight, answered, or ended in the server's 500);
\* each is counted once, after its handler returned, under its method, path
\* and the status of its response.
C4_RequestCounterTotal ==
    /\ \A l \in DOMAIN REQUEST_COUNT \cup DOMAIN sent :
         Value(REQUEST_COUNT, l) = Value(sent, l) + Cardinality(Counted(l))
    /\ Total(REQUEST_COUNT) =
         Total(sent) + Cardinality({p \in Procs : pc[p] = "counted"})
    /\ Total(sent) + failed + Cardinality({p \in Procs : pc[p] # "idle"}) = nreq

C4_Witness ==
    /\ \E l \in DOMAIN sent : l[3] = 404 /\ l[2] = OtherPath
    /\ \E l \in DOMAIN sent : l[3] = 404 /\ l[2] # OtherPath
    /\ \E l \in DOMAIN sent : l[3] = 422
    /\ \E l \in DOMAIN sent : l[2] = MetricsPath
    /\ Total(REQUEST_COUNT) = 4

\* The row a create or update with this body stores.
Written(body) == [name |-> body.name[1], description |-> body.description]

\* C5: an update of a stored id answers 200, replaces the name and the
\* description of that row by the body's and leaves the set of stored ids
\* and every other row as they were (an update never adds or removes an id);
\* a read of an id whose last write was an update answers 200 with the name
\* and description of that update.
C5_UpdateReplacesRow ==
    [][\A p \in Procs :
         /\ HandlerStep(p, "update") =>
              LET item_id == req[p].path[2]
              IN /\ DOMAIN db'.items = DOMAIN db.items
                 /\ \A i \in DOMAIN db.items \ {item_id} : db'.items[i] = db.items[i]
                 /\ item_id \in DOMAIN db.items =>
                      /\ resp'[p].status = 200
                      /\ db'.items[item_id] = Written(req[p].body)
         /\ HandlerStep(p, "read") =>
              LET item_id == req[p].path[2]
              IN (item_id \in DOMAIN lastWrite /\ lastWrite[item_id].op = "update") =>
                      /\ resp'[p].status = 200
                      /\ resp'[p].body.name = lastWrite[item_id].name
                      /\ resp'[p].body.description = lastWrite[item_id].description
      ]_vars

C5_Witness ==
    \E p \in Procs :
        /\ Holds(p, "read")
        /\ resp[p].status = 200
        /\ req[p].path[2] \in DOMAIN lastWrite
        /\ lastWrite[req[p].path[2]].op = "update"
        /\ resp[p].body.name = "b"
        /\ Cardinality(DOMAIN db.items) >= 2

\* C6: once a delete of an id has answered 204, no row with that id is ever
\* stored again, whatever is created later, and every later read or delete
\* of that id answers 404.
C6_DeletedStaysGone ==
    [][/\ deleted' \cap DOMAIN db'.items = {}
       /\ \A p \in Procs : \A kind \in {"read", "delete"} :
            (HandlerStep(p, kind) /\ req[p].path[2] \in deleted) =>
                resp'[p].status = 404
      ]_vars

C6_Witness ==
    \E p \in Procs :
        /\ Holds(p, "read")
        /\ resp[p].status = 404
        /\ \E k \in 1..Len(created) : req[p].path[2] \in created[k].gone
        /\ Value(handled, <<"delete", 404>>) >= 1

\* C7: on a store that was empty at start, after N creates (201) and M
\* deletes (204), GET /items/ answers 200 with exactly N - M items: the rows
\* created and not deleted, each once, with the name and description last
\* written to them.
C7_ListReturnsLiveItems ==
    [][\A p \in Procs :
         (HandlerStep(p, "list") /\ fresh) =>
            LET body == resp'[p].body
                N == Value(handled, <<"create", 201>>)
                M == Value(handled, <<"delete", 204>>)
            IN /\ resp'[p].status = 200
               /\ Len(body) = N - M
               /\ {body[i].id : i \in 1..Len(body)} =
                    {Some(created[k].id) : k \in 1..Len(created)}
                        \ {Some(d) : d \in deleted}
               /\ \A i, j \in 1..Len(body) : body[i].id = body[j].id => i = j
               /\ \A i \in 1..Len(body) :
                    /\ body[i].name = lastWrite[body[i].id[1]].name
                    /\ body[i].description = lastWrite[body[i].id[1]].description
      ]_vars

C7_Witness ==
    \E p \in Procs :
        /\ Holds(p, "list")
        /\ fresh
        /\ Value(handled, <<"create", 201>>) = 2
        /\ Value(handled, <<"delete", 204>>) = 1
        /\ Len(resp[p].body) = 1

\* C8: a read of an id whose last write is the create that assigned it (no
\* update or delete of that id since) answers 200 with the name and the
\* description given to that create, a null description when it gave none.
C8_ReadAfterCreate ==
    [][\A p \in Procs :
         HandlerStep(p, "read") =>
            LET item_id == req[p].path[2]
            IN (item_id \in DOMAIN lastWrite /\ lastWrite[item_id].op = "create") =>
                    /\ resp'[p].status = 200
                    /\ resp'[p].body.name = lastWrite[item_id].name
                    /\ resp'[p].body.description = lastWrite[item_id].description
      ]_vars

C8_Witness ==
    \E p \in Procs :
        /\ Holds(p, "read")
        /\ resp[p].status = 200
        /\ req[p].path[2] \in DOMAIN lastWrite
        /\ lastWrite[req[p].path[2]].op = "create"
        /\ resp[p].body.description = None
        /\ \E i \in DOMAIN lastWrite : lastWrite[i].description # None

\* C9: the ids of the rows inserted are strictly increasing in insertion
\* order and none is an id deleted before; on a store that was empty at
\* start the n-th insert stores its row under id n, and the stored ids are
\* the inserted ones that were not deleted.
C9_IdsIncreaseNeverReused ==
    /\ \A i, j \in 1..Len(created) : i < j => created[i].id < created[j].id
    /\ \A k \in 1..Len(created) : created[k].id \notin created[k].gone
    /\ fresh => \A n \in 1..Len(created) : created[n].id = n
    /\ fresh => DOMAIN db.items = {created[k].id : k \in 1..Len(created)} \ deleted

C9_Witness ==
    /\ fresh
    /\ Len(created) >= 2
    /\ created[2] = [id |-> 2, gone |-> {1}]
    /\ DOMAIN db.items = {2}

\* C10: read, update and delete answer 404 exactly when no row has the
\* requested id when their statement runs, and 200, 200, 204 when one has;
\* the 404 is an ordinary response: it goes through the middleware, which
\* counts it under status 404.
C10_NotFoundIffNoRow ==
    [][\A p \in Procs :
         /\ \A kind \in {"read", "update", "delete"} :
              HandlerStep(p, kind) =>
                 resp'[p].status = IF req[p].path[2] \in DOMAIN db.items
                                   THEN SuccessStatus(kind)
                                   ELSE 404
         /\ pc[p] = "responded" => pc'[p] \in {"responded", "counted"}
         /\ (pc[p] = "responded" /\ pc'[p] = "counted") =>
              /\ Value(REQUEST_COUNT', Label(p)) = Value(REQUEST_COUNT, Label(p)) + 1
              /\ resp'[p] = resp[p]
      ]_vars

C10_Witness ==
    \E p \in Procs :
        /\ pc[p] = "counted"
        /\ Route(req[p]) = "delete"
        /\ resp[p].status = 404
        /\ Value(REQUEST_COUNT, Label(p)) >= 1
        /\ Value(handled, <<"read", 200>>) >= 1
        /\ Value(handled, <<"update", 404>>) >= 1

\* Workers whose get_db holds an open connection.
Holders == {p \in Procs : conn[p] = "open"}

\* C11: every storage request gets a connection of its own, made for it and
\* held by no other request; a connection is open only while the request
\* that owns it is in flight and is closed when that request ends, whether
\* it answered (2xx, 404, 422) or raised; with no request in flight no
\* connection is open.
C11_ConnectionPerRequest ==
    [][/\ connections' = {cid'[p] : p \in Holders'}
       /\ \A p \in Holders' : pc'[p] \in {"responded", "counted", "raised"}
       /\ \A p, q \in Holders' : cid'[p] = cid'[q] => p = q
       /\ (\A p \in Procs : pc'[p] = "idle") => connections' = {}
       /\ \A p \in Procs :
            /\ (conn[p] = "none" /\ conn'[p] = "open") => cid'[p] \notin 1..nconn
            /\ (pc[p] = "routed" /\ pc'[p] # "routed" /\ Route(req[p]) \in Kinds) =>
                   /\ conn'[p] = "open"
                   /\ cid'[p] \in connections'
            /\ (pc[p] # "idle" /\ pc'[p] = "idle") => cid[p] \notin connections'
      ]_vars

C11_Witness ==
    \E p, q \in Procs :
        /\ p # q
        /\ pc[p] = "raised"
        /\ conn[p] = "open"
        /\ conn[q] = "open"
        /\ resp[q].status = 404
        /\ cid[p] # cid[q]
        /\ connections = {cid[p], cid[q]}

\* Worker p holds a create or update request whose body has no name.
LacksName(p) ==
    /\ pc[p] # "idle"
    /\ Route(req[p]) \in {"create", "update"}
    /\ req[p].body.name = None

\* Worker p takes a step.
Moves(p) == pc'[p] # pc[p] \/ conn'[p] # conn[p]

\* C12: a create or update whose body lacks name is answered with a client
\* error (4xx) without its handler running: from its arrival to its end the
\* request runs no statement, leaves every stored row and every CRUD counter
\* as they were, and never raises.
C12_MissingNameRejected ==
    [][\A p \in Procs :
         (LacksName(p) /\ Moves(p)) =>
            /\ db' = db
            /\ CRUD_OPS' = CRUD_OPS
            /\ handled' = handled
            /\ pc'[p] # "raised"
            /\ pc[p] = "routed" =>
                 /\ pc'[p] = "responded"
                 /\ resp'[p].status \in 400..499
      ]_vars

C12_Witness ==
    /\ \E l \in DOMAIN sent : l[1] = "POST" /\ l[3] = 422
    /\ \E p \in Procs :
         /\ LacksName(p)
         /\ Route(req[p]) = "update"
         /\ req[p].path[2] \in DOMAIN db.items
         /\ pc[p] = "counted"
         /\ resp[p].status = 422

\* C13 (as claimed): the name of every stored row is present and is not the
\* empty string.
C13_NameNeverEmpty ==
    \A i \in DOMAIN db.items :
        /\ db.items[i].name \in STRING
        /\ db.items[i].name # ""

\* C14: a read, a list, an update that answers 404 and a delete that answers
\* 404 leave the stored rows as they were; an update of an id that has no
\* row stores no row.
C14_ReadsAndMissesChangeNothing ==
    [][\A p \in Procs :
         /\ \A kind \in {"read", "list"} : HandlerStep(p, kind) => db' = db
         /\ \A kind \in {"update", "delete"} :
              HandlerStep(p, kind) =>
                 /\ resp'[p].status = 404 => db' = db
                 /\ req[p].path[2] \notin DOMAIN db.items => db'.items = db.items
      ]_vars

C14_Witness ==
    /\ db.items # <<>>
    /\ Value(handled, <<"update", 404>>) >= 1
    /\ Value(handled, <<"delete", 404>>) >= 1
    /\ Value(handled, <<"read", 200>>) >= 1
    /\ \E p \in Procs : Holds(p, "list") /\ Len(resp[p].body) >= 1

\* C15: a GET /metrics request and a request no route matches are answered
\* 200 and 404; the request counter grows by one for each, under its method,
\* path and status, in the one middleware step of the request, and in no
\* other step of it; no step of such a request changes a CRUD counter or a
\* stored row.
C15_MetricsAndNoRouteCountedOnce ==
    [][\A p \in Procs :
         (pc[p] # "idle" /\ Route(req[p]) \in {"metrics", "none"} /\ Moves(p)) =>
            /\ db' = db
            /\ CRUD_OPS' = CRUD_OPS
            /\ pc[p] = "routed" =>
                 /\ pc'[p] = "responded"
                 /\ resp'[p].status = IF Route(req[p]) = "metrics" THEN 200 ELSE 404
                 /\ REQUEST_COUNT' = REQUEST_COUNT
            /\ pc[p] = "responded" =>
                 /\ pc'[p] = "counted"
                 /\ Value(REQUEST_COUNT', Label(p)) = Value(REQUEST_COUNT, Label(p)) + 1
                 /\ Total(REQUEST_COUNT') = Total(REQUEST_COUNT) + 1
            /\ pc[p] = "counted" =>
                 /\ pc'[p] = "idle"
                 /\ REQUEST_COUNT' = REQUEST_COUNT
      ]_vars

C15_Witness ==
    /\ Value(sent, <<"GET", OtherPath, 404>>) = 1
    /\ Value(REQUEST_COUNT, <<"GET", OtherPath, 404>>) = 1
    /\ Value(REQUEST_COUNT, <<"GET", MetricsPath, 200>>) = 1
    /\ \E p \in Procs : pc[p] = "counted" /\ Route(req[p]) = "metrics"
    /\ db.items # <<>>
    /\ CRUD_OPS # <<>>

\* Workers other than p that hold a 204 of a delete of this id.
Deleters(p, item_id) ==
    {q \in Procs \ {p} :
        /\ Holds(q, "delete")
        /\ req[q].path[2] = item_id
        /\ resp[q].status = 204}

\* C16: of the deletes of one stored id that overlap, the one whose statement
\* runs first answers 204, removes the row and adds one to the delete
\* counter; each other answers 404 and adds nothing: two overlapping deletes
\* of an id never both answer 204.
C16_OneDeleteWins ==
    [][\A p \in Procs :
         /\ HandlerStep(p, "delete") =>
              LET item_id == req[p].path[2]
              IN /\ Deleters(p, item_id) # {} =>
                      /\ resp'[p].status = 404
                      /\ CRUD_OPS' = CRUD_OPS
                 /\ item_id \in DOMAIN db.items =>
                      /\ resp'[p].status = 204
                      /\ item_id \notin DOMAIN db'.items
                      /\ Value(CRUD_OPS', "delete") = Value(CRUD_OPS, "delete") + 1
         /\ \A q \in Procs \ {p} :
              (Holds(p, "delete")' /\ Holds(q, "delete")'
                  /\ req'[p].path = req'[q].path) =>
                      ~(resp'[p].status = 204 /\ resp'[q].status = 204)
      ]_vars

C16_Witness ==
    \E p, q \in Procs :
        /\ p # q
        /\ Holds(p, "delete")
        /\ Holds(q, "delete")
        /\ req[p].path = req[q].path
        /\ resp[p].status = 204
        /\ resp[q].status = 404
        /\ Value(CRUD_OPS, "delete") = 1

\* C17: when the handler raises an error that is not the 404, the request
\* changes no CRUD counter and stores nothing; the middleware statements
\* after call_next do not run for it, so the request counter, the latency
\* histogram and the size gauge stay as they were; its connection is closed
\* before the request ends.
C17_RaiseSkipsMetrics ==
    [][\A p \in Procs :
         /\ (pc[p] = "routed" /\ pc'[p] = "raised") =>
              /\ db' = db
              /\ CRUD_OPS' = CRUD_OPS
              /\ handled' = handled
              /\ metricsVars' = metricsVars
         /\ (pc[p] = "raised" /\ Moves(p)) =>
              /\ db' = db
              /\ CRUD_OPS' = CRUD_OPS
              /\ metricsVars' = metricsVars
              /\ sent' = sent
         /\ (pc[p] = "raised" /\ pc'[p] = "idle") =>
              /\ conn[p] = "closed"
              /\ cid[p] \notin connections'
              /\ failed' = failed + 1
      ]_vars

C17_Witness ==
    /\ failed >= 1
    /\ \E p \in Procs :
         /\ pc[p] = "raised"
         /\ conn[p] = "closed"
         /\ Route(req[p]) = "create"
    /\ Total(REQUEST_COUNT) >= 1
    /\ DB_SIZE # None
    /\ connections = {}

====
